---- MODULE Spec2Model ----
(***************************************************************************)
(* Model of the three diagnostic scripts of the repository:                *)
(*   debug_video_processing.py  (script = "debug")                         *)
(*   test_ffmpeg_extraction.py  (script = "extract")                       *)
(*   benchmark_inference.py     (script = "bench", and get_paper_time      *)
(*                               applied on its own, script = "paper")     *)
(* Every script is a linear, single-threaded procedure; pc is its position.*)
(* External commands, the file system and the device are the environment:  *)
(* their outcomes are drawn from small sets where the code observes them.  *)
(***************************************************************************)
EXTENDS Integers, Sequences, FiniteSets, TLC

VARIABLES
    script,              \* which script this run executes
    pc,                  \* position of the script
    \* ---- debug_video_processing.py / test_ffmpeg_extraction.py
    phase,               \* "working" (test_with_working_video) or "problem"
    video_path,          \* argument of the function being executed
    output_dir,          \* argument of test_ffmpeg_methods
    working_exists,      \* os.path.exists("examples/videos/kitchen.mp4")
    dirs,                \* the scratch directories of the file system
    created,             \* scratch directories this run created (os.makedirs)
    i,                   \* loop index of test_ffmpeg_methods
    running,             \* external commands that have been started and not yet ended
    started,             \* methods whose command was started in this call, in order
    successful_methods,  \* local list of test_ffmpeg_methods
    worked,              \* methods whose command exited zero and itself wrote a frame
    matched,             \* methods whose command exited zero with a method{m}_*.png there afterwards
    last_outcome,        \* outcome of the most recent external command / file access
    report,              \* message printed for it
    verdict,             \* the most recent summary message of the script
    working_worked,      \* some command on the working video exited zero and wrote a frame
    probes,              \* outcomes of the ffprobe runs of the current analysis
    analyze_result,      \* return value of analyze_video_properties
    working_test_passed, \* local of main
    working_returned,    \* test_with_working_video has returned
    listed,              \* what os.listdir('.') returned (live only during the search)
    problem_video_path,  \* local of main
    searched,            \* main has listed the upload directories
    cmds,                \* the external commands run so far: <<tool, video>>
    \* ---- benchmark_inference.py
    cuda_available,      \* torch.cuda.is_available()
    capability,          \* torch.cuda.get_device_capability()[0]
    image_dir_exists,    \* os.path.exists("examples/kitchen/images")
    image_files,         \* names in the image directory
    device, dtype,
    all_image_paths,
    case_idx,            \* position in test_cases
    images,              \* paths loaded for the current test case
    run,                 \* timed runs done for the current test case
    events,              \* what happened in the current test case, in order
    clock,               \* time.time()
    start_inference, inference_times, load_time,
    peak_mem,            \* torch.cuda.max_memory_allocated()
    results,
    loads,               \* path lists handed to load_and_preprocess_images
    model_runs,          \* number of forward passes
    slowdown_lines,      \* num_images of the slowdown lines printed
    gpu_line, cc_line,   \* what the "GPU:" and "Compute Capability:" lines printed
    \* ---- get_paper_time
    num_images_arg, paper_time

dvars == <<phase, video_path, output_dir, working_exists, dirs, created, i, running,
           started, successful_methods, worked, matched, last_outcome, report, verdict,
           working_worked, probes, analyze_result, working_test_passed, working_returned, listed,
           problem_video_path, searched, cmds>>
bvars == <<cuda_available, capability, image_dir_exists, image_files, device, dtype,
           all_image_paths, case_idx, images, run, events, clock, start_inference,
           inference_times, load_time, peak_mem, results, loads, model_runs,
           slowdown_lines, gpu_line, cc_line>>
pvars == <<num_images_arg, paper_time>>
vars == <<script, pc, dvars, bvars, pvars>>

(***************************************************************************)
(* Bounds of the model.                                                    *)
(***************************************************************************)
MaxEntries == 4
MaxImages == 50
MaxFrames == 50

(***************************************************************************)
(* Python exceptions and handlers.                                         *)
(***************************************************************************)
Ancestors(e) ==
    CASE e = "CalledProcessError" -> {"CalledProcessError", "SubprocessError", "Exception"}
      [] e = "TimeoutExpired"     -> {"TimeoutExpired", "SubprocessError", "Exception"}
      [] e = "FileNotFoundError"  -> {"FileNotFoundError", "OSError", "Exception"}
      [] e = "PermissionError"    -> {"PermissionError", "OSError", "Exception"}
      [] e = "ZeroDivisionError"  -> {"ZeroDivisionError", "ArithmeticError", "Exception"}
      [] e = "AssertionError"     -> {"AssertionError", "Exception"}
      [] OTHER                    -> {}

RECURSIVE Catch(_, _)
\* The message of the first except clause of handlers that matches e;
\* "uncaught" when none does.
Catch(handlers, e) ==
    IF handlers = <<>> THEN "uncaught"
    ELSE IF Head(handlers)[1] \in Ancestors(e) THEN Head(handlers)[2]
    ELSE Catch(Tail(handlers), e)

\* subprocess.run(cmd, check=..., timeout=...): the exception it raises.
SubprocessRun(outcome, check, timeout) ==
    IF outcome = "notfound" THEN "FileNotFoundError"
    ELSE IF outcome = "timeout" /\ timeout THEN "TimeoutExpired"
    ELSE IF outcome = "nonzero" /\ check THEN "CalledProcessError"
    ELSE "none"

\* What a command can do; it can hit a timeout only when one is passed.
Outcomes(timeout) ==
    {"zero", "nonzero", "notfound"} \cup (IF timeout THEN {"timeout"} ELSE {})

AnalyzeHandlers_NoNotFound ==
    << <<"CalledProcessError", "ffprobe failed">> >>
AnalyzeHandlers ==
    << <<"CalledProcessError", "ffprobe failed">>,
       <<"FileNotFoundError", "ffprobe not found">> >>
CheckHandlers ==
    << <<"Exception", "Error reading file">> >>
MethodHandlers ==
    << <<"CalledProcessError", "FAILED">>,
       <<"TimeoutExpired", "TIMEOUT">>,
       <<"Exception", "UNEXPECTED ERROR">> >>
ExtractHandlers ==
    << <<"CalledProcessError", "FFmpeg extraction failed">>,
       <<"Exception", "Unexpected error">> >>

(***************************************************************************)
(* Videos, methods and scratch directories.                                *)
(***************************************************************************)
WorkingVideo == [dir |-> 0, ext |-> "kitchen.mp4"]
NoVideo == [dir |-> 0, ext |-> "None"]

Methods ==
    << "Standard extraction",
       "GoPro optimized (genpts+ignore_index)",
       "Error tolerance (ignore_err)",
       "Force MP4 demuxer",
       "Concat demuxer workaround",
       "Basic with verbose output" >>
NumMethods == Len(Methods)

\* A frame file is named by its prefix: m for "method{m}_", 0 for no prefix.
Prefixes == 0 .. NumMethods
ScratchDirs == {"test_ffmpeg_output", "debug_working_output", "debug_problem_output"}
Absent == [exists |-> FALSE, files |-> {}]
Dir(fs) == [exists |-> TRUE, files |-> fs]
\* What an earlier run may have left behind.
StaleDirs == {Absent, Dir({}), Dir(Prefixes)}

\* if os.path.exists(d): shutil.rmtree(d)
RmtreeIfExists_Keep(fs, d) == fs
RmtreeIfExists(fs, d) == [fs EXCEPT ![d] = Absent]
\* os.makedirs(d)
Makedirs(fs, d) == [fs EXCEPT ![d] = Dir({})]
\* for f in glob(method{m}_*.png): os.remove(f)
ClearPrevious(fs, d, m) == [fs EXCEPT ![d].files = @ \ {m}]
\* glob(os.path.join(output_dir, f"method{m}_*.png"))
ExtractedImages_AnyPrefix(fs, d, m) == fs[d].files
ExtractedImages(fs, d, m) == fs[d].files \cap {m}
\* the frames command m writes: output_dir/method{m}_%06d.png
WriteFrames(fs, d, m, wrote) ==
    IF wrote /\ fs[d].exists THEN [fs EXCEPT ![d].files = @ \cup {m}] ELSE fs

\* The loop goes on to the next method whatever happened to this one.
NextMethod_StopOnError(m, msg) ==
    IF msg \in {"TIMEOUT", "UNEXPECTED ERROR"} THEN NumMethods + 1 ELSE m + 1
NextMethod(m, msg) == m + 1

(***************************************************************************)
(* main's search for the uploaded video.                                   *)
(***************************************************************************)
MaxUploads == 3
Exts == {"MP4", "mp4"}
\* A directory listing: entry name -> whether the name starts with
\* 'input_images_' and which video files the entry holds (recursively).
\* Names are numbers ordered as the names' strings are.
Listings ==
    UNION { [S -> [upload : BOOLEAN, vids : SUBSET Exts]] : S \in SUBSET (1 .. MaxEntries) }

SetMax(S) == CHOOSE m \in S : \A x \in S : x <= m
SetMin(S) == CHOOSE m \in S : \A x \in S : m <= x
RECURSIVE SortDesc(_)
SortDesc(S) == IF S = {} THEN <<>> ELSE <<SetMax(S)>> \o SortDesc(S \ {SetMax(S)})
RECURSIVE SortAsc(_)
SortAsc(S) == IF S = {} THEN <<>> ELSE <<SetMin(S)>> \o SortAsc(S \ {SetMin(S)})
FirstN(s, k) == SubSeq(s, 1, IF Len(s) < k THEN Len(s) ELSE k)

\* upload_dirs = [d for d in os.listdir('.') if d.startswith('input_images_')]
\* upload_dirs.sort(reverse=True)
UploadDirs(listing) == SortDesc({n \in DOMAIN listing : listing[n].upload})
\* glob.glob(os.path.join(upload_dir, "**", "*.<ext>"), recursive=True)
GlobVideos(listing, d, ext) ==
    IF ext \in listing[d].vids THEN << [dir |-> d, ext |-> ext] >> ELSE <<>>
PotentialFiles(listing, d) ==
    GlobVideos(listing, d, "MP4") \o GlobVideos(listing, d, "mp4")
RECURSIVE ScanUploads(_, _)
\* the for loop over upload_dirs[:3], left at the first directory with a video
ScanUploads(ds, listing) ==
    IF ds = <<>> THEN NoVideo
    ELSE IF PotentialFiles(listing, Head(ds)) # <<>> THEN PotentialFiles(listing, Head(ds))[1]
    ELSE ScanUploads(Tail(ds), listing)
FindProblemVideo_AllUploads(listing) == ScanUploads(UploadDirs(listing), listing)
FindProblemVideo(listing) == ScanUploads(FirstN(UploadDirs(listing), MaxUploads), listing)

OutputDirOf(ph) == IF ph = "working" THEN "debug_working_output" ELSE "debug_problem_output"
\* Where analyze_video_properties returns to: test_with_working_video ignores
\* its result, main tests it.
AfterAnalyze(ph, res) == IF ph = "working" \/ res THEN "check" ELSE "cleanup"
\* return len(successful) > 0
WorkingPassed_Always(successful) == TRUE
WorkingPassed(successful) == Len(successful) > 0

(***************************************************************************)
(* debug_video_processing.py                                               *)
(***************************************************************************)
\* main calls test_with_working_video, which tests for the working video.
MainStart ==
    /\ script = "debug" /\ pc = "main"
    /\ IF working_exists
       THEN /\ phase' = "working"
            /\ video_path' = WorkingVideo
            /\ pc' = "analyze"
            /\ UNCHANGED <<verdict, working_test_passed, working_returned>>
       ELSE /\ verdict' = "No working video found for comparison"
            /\ working_test_passed' = TRUE
            /\ working_returned' = TRUE
            /\ pc' = "gate"
            /\ UNCHANGED <<phase, video_path>>
    /\ UNCHANGED <<output_dir, working_exists, dirs, created, i, running, started,
                   successful_methods, worked, matched, last_outcome, report,
                   working_worked, probes,
                   analyze_result, listed, problem_video_path, searched, cmds>>
    /\ UNCHANGED <<script, bvars, pvars>>

\* analyze_video_properties: the os.path.exists test.
AnalyzeExists ==
    /\ script = "debug" /\ pc = "analyze"
    /\ \E ex \in (IF video_path = WorkingVideo THEN {working_exists} ELSE BOOLEAN) :
         IF ex
         THEN /\ pc' = "probe1"
              /\ probes' = <<>>
              /\ last_outcome' = "exists"
              /\ report' = "File size"
              /\ UNCHANGED analyze_result
         ELSE /\ pc' = AfterAnalyze(phase, FALSE)
              /\ probes' = <<>>
              /\ last_outcome' = "missing"
              /\ report' = "Video file not found"
              /\ analyze_result' = FALSE
    /\ UNCHANGED <<phase, video_path, output_dir, working_exists, dirs, created, i,
                   running, started, successful_methods, worked, matched,
                   working_test_passed, working_returned, listed,
                   problem_video_path, searched, cmds>>
    /\ UNCHANGED <<verdict, working_worked>>
    /\ UNCHANGED <<script, bvars, pvars>>

\* analyze_video_properties: one of its two ffprobe runs.
AnalyzeProbe ==
    /\ script = "debug" /\ pc \in {"probe1", "probe2"}
    /\ \E o \in Outcomes(FALSE) :
         LET e == SubprocessRun(o, TRUE, FALSE)
             msg == IF e = "none" THEN "ok" ELSE Catch(AnalyzeHandlers, e)
         IN /\ cmds' = Append(cmds, <<"ffprobe", video_path>>)
            /\ probes' = Append(probes, o)
            /\ last_outcome' = o
            /\ IF msg = "uncaught"
               THEN /\ pc' = "crashed"
                    /\ report' = "Traceback"
                    /\ UNCHANGED analyze_result
               ELSE IF e # "none"
               THEN /\ pc' = AfterAnalyze(phase, FALSE)
                    /\ report' = msg
                    /\ analyze_result' = FALSE
               ELSE IF pc = "probe1"
               THEN /\ pc' = "probe2"
                    /\ UNCHANGED <<report, analyze_result>>
               ELSE /\ pc' = AfterAnalyze(phase, TRUE)
                    /\ report' = "Video Information"
                    /\ analyze_result' = TRUE
    /\ UNCHANGED <<phase, video_path, output_dir, working_exists, dirs, created, i,
                   running, started, successful_methods, worked, matched,
                   working_test_passed, working_returned, listed,
                   problem_video_path, searched>>
    /\ UNCHANGED <<verdict, working_worked>>
    /\ UNCHANGED <<script, bvars, pvars>>

\* check_file_structure: open and read the file; any exception is reported.
CheckFileStructure ==
    /\ script = "debug" /\ pc = "check"
    /\ \E e \in {"none", "PermissionError", "FileNotFoundError"} :
         LET msg == IF e = "none" THEN "file structure" ELSE Catch(CheckHandlers, e)
         IN /\ last_outcome' = CASE e = "none" -> "read"
                                 [] e = "PermissionError" -> "unreadable"
                                 [] e = "FileNotFoundError" -> "missing"
            /\ report' = IF msg = "uncaught" THEN "Traceback" ELSE msg
            /\ pc' = IF msg = "uncaught" THEN "crashed" ELSE "methods_setup"
    /\ UNCHANGED <<phase, video_path, output_dir, working_exists, dirs, created, i,
                   running, started, successful_methods, worked, matched, probes,
                   analyze_result, working_test_passed, working_returned, listed,
                   problem_video_path, searched, cmds>>
    /\ UNCHANGED <<verdict, working_worked>>
    /\ UNCHANGED <<script, bvars, pvars>>

\* test_ffmpeg_methods: delete and recreate the output directory.
MethodsSetup ==
    /\ script = "debug" /\ pc = "methods_setup"
    /\ LET d == OutputDirOf(phase)
           fs == RmtreeIfExists(dirs, d)
       IN /\ output_dir' = d
          /\ IF fs[d].exists
             THEN \* os.makedirs raises FileExistsError
                  /\ pc' = "crashed"
                  /\ report' = "Traceback"
                  /\ UNCHANGED <<dirs, created>>
             ELSE /\ pc' = "method_start"
                  /\ dirs' = Makedirs(fs, d)
                  /\ created' = created \cup {d}
                  /\ UNCHANGED report
    /\ successful_methods' = <<>>
    /\ i' = 1
    /\ started' = <<>>
    /\ worked' = {}
    /\ matched' = {}
    /\ UNCHANGED <<phase, video_path, working_exists, running, last_outcome, probes,
                   analyze_result, working_test_passed, working_returned, listed,
                   problem_video_path, searched, cmds>>
    /\ UNCHANGED <<verdict, working_worked>>
    /\ UNCHANGED <<script, bvars, pvars>>

\* The loop body up to the start of the command: clear this method's
\* previous outputs, then subprocess.run starts ffmpeg.
MethodStart ==
    /\ script = "debug" /\ pc = "method_start"
    /\ i <= NumMethods
    /\ dirs' = ClearPrevious(dirs, output_dir, i)
    /\ running' = running \cup {i}
    /\ started' = Append(started, i)
    /\ cmds' = Append(cmds, <<"ffmpeg", video_path>>)
    /\ pc' = "method_wait"
    /\ UNCHANGED <<phase, video_path, output_dir, working_exists, created, i,
                   successful_methods, worked, matched, last_outcome, report, probes,
                   analyze_result, working_test_passed, working_returned, listed,
                   problem_video_path, searched>>
    /\ UNCHANGED <<verdict, working_worked>>
    /\ UNCHANGED <<script, bvars, pvars>>

\* subprocess.run returns or raises; the rest of the loop body.
MethodFinish ==
    /\ script = "debug" /\ pc = "method_wait"
    /\ \E o \in Outcomes(TRUE), wrote \in BOOLEAN :
         /\ o = "notfound" => ~wrote
         /\ LET fs == WriteFrames(dirs, output_dir, i, wrote)
                e == SubprocessRun(o, TRUE, TRUE)
                msg == IF e # "none" THEN Catch(MethodHandlers, e)
                       ELSE IF ExtractedImages(fs, output_dir, i) # {} THEN "SUCCESS"
                       ELSE "no frames extracted"
            IN /\ dirs' = fs
               /\ running' = running \ {i}
               /\ last_outcome' = o
               /\ report' = IF msg = "uncaught" THEN "Traceback" ELSE msg
               /\ successful_methods' =
                      IF msg = "SUCCESS" THEN Append(successful_methods, Methods[i])
                      ELSE successful_methods
               /\ worked' = IF o = "zero" /\ wrote THEN worked \cup {i} ELSE worked
               /\ matched' = IF o = "zero" /\ i \in fs[output_dir].files
                             THEN matched \cup {i} ELSE matched
               /\ i' = NextMethod(i, msg)
               /\ pc' = IF msg = "uncaught" THEN "crashed"
                        ELSE IF NextMethod(i, msg) > NumMethods THEN "methods_return"
                        ELSE "method_start"
    /\ UNCHANGED <<phase, video_path, output_dir, working_exists, created, started,
                   probes, analyze_result, working_test_passed, working_returned,
                   listed, problem_video_path, searched, cmds>>
    /\ UNCHANGED <<verdict, working_worked>>
    /\ UNCHANGED <<script, bvars, pvars>>

\* test_ffmpeg_methods: the summary and the return.
MethodsReturn ==
    /\ script = "debug" /\ pc = "methods_return"
    /\ verdict' = IF successful_methods # <<>> THEN "Successful methods"
                  ELSE "No methods succeeded"
    /\ pc' = IF phase = "working" THEN "working_cleanup" ELSE "cleanup"
    /\ UNCHANGED <<phase, video_path, output_dir, working_exists, dirs, created, i,
                   running, started, successful_methods, worked, matched, last_outcome, report,
                   working_worked,
                   probes, analyze_result, working_test_passed, working_returned,
                   listed, problem_video_path, searched, cmds>>
    /\ UNCHANGED <<script, bvars, pvars>>

\* test_with_working_video after test_ffmpeg_methods: report, cleanup, return.
\* Its locals and those of the functions it called end with it.
WorkingReturn ==
    /\ script = "debug" /\ pc = "working_cleanup"
    /\ verdict' = IF successful_methods # <<>> THEN "Working video processed successfully"
                  ELSE "Even working video failed"
    /\ dirs' = RmtreeIfExists(dirs, "debug_working_output")
    /\ last_outcome' = "none" /\ report' = "none"
    /\ working_worked' = (worked # {})
    /\ working_test_passed' = WorkingPassed(successful_methods)
    /\ working_returned' = TRUE
    /\ pc' = "gate"
    /\ phase' = "none" /\ video_path' = NoVideo /\ output_dir' = "none"
    /\ i' = 0 /\ started' = <<>> /\ successful_methods' = <<>>
    /\ worked' = {} /\ matched' = {} /\ probes' = <<>> /\ analyze_result' = FALSE
    /\ UNCHANGED <<working_exists, created, running, listed, problem_video_path,
                   searched, cmds>>
    /\ UNCHANGED <<script, bvars, pvars>>

\* main: if not working_test_passed: report and return.
MainGate ==
    /\ script = "debug" /\ pc = "gate"
    /\ IF ~working_test_passed
       THEN /\ verdict' = "CRITICAL: Working video test failed"
            /\ pc' = "done"
       ELSE /\ pc' = "search"
            /\ UNCHANGED verdict
    /\ UNCHANGED <<phase, video_path, output_dir, working_exists, dirs, created, i,
                   running, started, successful_methods, worked, matched, last_outcome, report,
                   working_worked,
                   probes, analyze_result, working_test_passed, working_returned,
                   listed, problem_video_path, searched, cmds>>
    /\ UNCHANGED <<script, bvars, pvars>>

\* main: list the current directory and look through the recent uploads.
MainSearch ==
    /\ script = "debug" /\ pc = "search"
    /\ \E listing \in Listings :
         /\ listed' = listing
         /\ problem_video_path' = FindProblemVideo(listing)
    /\ searched' = TRUE
    /\ pc' = "select"
    /\ UNCHANGED <<phase, video_path, output_dir, working_exists, dirs, created, i,
                   running, started, successful_methods, worked, matched, last_outcome,
                   report, probes, analyze_result, working_test_passed,
                   working_returned, cmds>>
    /\ UNCHANGED <<verdict, working_worked>>
    /\ UNCHANGED <<script, bvars, pvars>>

\* main: without a video report and return, else analyse the video found.
\* The listing is not used past this point.
MainSelect ==
    /\ script = "debug" /\ pc = "select"
    /\ IF problem_video_path = NoVideo
       THEN /\ verdict' = "No recent video uploads found"
            /\ pc' = "done"
            /\ UNCHANGED <<phase, video_path>>
       ELSE /\ verdict' = "ANALYZING PROBLEMATIC VIDEO"
            /\ phase' = "problem"
            /\ video_path' = problem_video_path
            /\ pc' = "analyze"
    /\ listed' = <<>>
    /\ UNCHANGED <<output_dir, working_exists, dirs, created, i, running, started,
                   successful_methods, worked, matched, last_outcome, report,
                   working_worked, probes,
                   analyze_result, working_test_passed, working_returned,
                   problem_video_path, searched, cmds>>
    /\ UNCHANGED <<script, bvars, pvars>>

\* main: the verdict on the problematic video, and the final cleanup.
MainCleanup ==
    /\ script = "debug" /\ pc = "cleanup"
    /\ verdict' = IF ~analyze_result THEN verdict
                  ELSE IF successful_methods # <<>> THEN "SOLUTION FOUND"
                  ELSE "NO SOLUTION FOUND"
    /\ dirs' = RmtreeIfExists(dirs, "debug_problem_output")
    /\ pc' = "done"
    /\ UNCHANGED <<phase, video_path, output_dir, working_exists, created, i, running,
                   started, successful_methods, worked, matched, last_outcome, report,
                   working_worked, probes,
                   analyze_result, working_test_passed, working_returned, listed,
                   problem_video_path, searched, cmds>>
    /\ UNCHANGED <<script, bvars, pvars>>

(***************************************************************************)
(* test_ffmpeg_extraction.py                                               *)
(***************************************************************************)
\* The existence test and the creation of the test directory.
ExtractStart ==
    /\ script = "extract" /\ pc = "main"
    /\ IF ~working_exists
       THEN /\ report' = "Test video not found"
            /\ last_outcome' = "missing"
            /\ pc' = "done"
            /\ UNCHANGED <<dirs, created, output_dir>>
       ELSE LET fs == RmtreeIfExists(dirs, "test_ffmpeg_output")
            IN /\ output_dir' = "test_ffmpeg_output"
               /\ last_outcome' = "exists"
               /\ IF fs["test_ffmpeg_output"].exists
                  THEN /\ pc' = "crashed"
                       /\ report' = "Traceback"
                       /\ UNCHANGED <<dirs, created>>
                  ELSE /\ pc' = "extract_run"
                       /\ report' = "Testing FFmpeg extraction"
                       /\ dirs' = Makedirs(fs, "test_ffmpeg_output")
                       /\ created' = created \cup {"test_ffmpeg_output"}
    /\ UNCHANGED <<phase, video_path, working_exists, i, running, started,
                   successful_methods, worked, matched, probes, analyze_result,
                   working_test_passed, working_returned, listed, problem_video_path,
                   searched, cmds>>
    /\ UNCHANGED <<verdict, working_worked>>
    /\ UNCHANGED <<script, bvars, pvars>>

\* The try block: run ffmpeg, count the frames, print the speed.
\* elapsed is the measured extraction_time; a zero makes the speed a
\* ZeroDivisionError.
ExtractRun ==
    /\ script = "extract" /\ pc = "extract_run"
    /\ \E o \in Outcomes(FALSE), wrote \in BOOLEAN, elapsed \in {0, 1} :
         /\ o = "notfound" => ~wrote
         /\ LET run_e == SubprocessRun(o, TRUE, FALSE)
                e == IF run_e = "none" /\ elapsed = 0 THEN "ZeroDivisionError" ELSE run_e
                msg == IF e = "none" THEN "FFmpeg extraction successful"
                       ELSE Catch(ExtractHandlers, e)
            IN /\ dirs' = WriteFrames(dirs, output_dir, 0, wrote)
               /\ cmds' = Append(cmds, <<"ffmpeg", video_path>>)
               /\ last_outcome' = o
               /\ report' = IF msg = "uncaught" THEN "Traceback" ELSE msg
               /\ pc' = IF msg = "uncaught" THEN "crashed" ELSE "extract_cleanup"
    /\ UNCHANGED <<phase, video_path, output_dir, working_exists, created, i, running,
                   started, successful_methods, worked, matched, probes, analyze_result,
                   working_test_passed, working_returned, listed, problem_video_path,
                   searched>>
    /\ UNCHANGED <<verdict, working_worked>>
    /\ UNCHANGED <<script, bvars, pvars>>

\* The cleanup after the try statement.
ExtractCleanup ==
    /\ script = "extract" /\ pc = "extract_cleanup"
    /\ dirs' = RmtreeIfExists(dirs, "test_ffmpeg_output")
    /\ pc' = "done"
    /\ UNCHANGED <<phase, video_path, output_dir, working_exists, created, i, running,
                   started, successful_methods, worked, matched, last_outcome, report,
                   probes, analyze_result, working_test_passed, working_returned,
                   listed, problem_video_path, searched, cmds>>
    /\ UNCHANGED <<verdict, working_worked>>
    /\ UNCHANGED <<script, bvars, pvars>>


(***************************************************************************)
(* benchmark_inference.py                                                  *)
(***************************************************************************)
test_cases == <<1, 2, 4, 8, 10, 20, 50>>
num_runs == 3
Capabilities == {7, 8, 9}

\* Python's None and a value that is not None.
None == <<>>
Some(x) == <<x>>
\* if x:
Truthy(x) == x # None /\ x[1] # 0

\* The paper's times, in hundredths of a second.
paper_data == (1 :> 4) @@ (2 :> 5) @@ (4 :> 7) @@ (8 :> 11) @@ (10 :> 14)
              @@ (20 :> 31) @@ (50 :> 104)
\* return paper_data.get(num_images)
get_paper_time(num_images) ==
    IF num_images \in DOMAIN paper_data THEN Some(paper_data[num_images]) ELSE None

\* A torch.cuda call that needs a CUDA device: the exception it raises.
CudaCall(available) == IF available THEN "none" ELSE "AssertionError"

\* if num_images > len(all_image_paths): continue
SkipCase_AtLeast(n, paths) == n >= Len(paths)
SkipCase(n, paths) == n > Len(paths)
\* all_image_paths = sorted(glob.glob(os.path.join(image_dir, "*")))
ListImages(files) == SortAsc(files)

\* Time an event takes with n images loaded (the clock's unit is arbitrary).
Cost(ev, n) == IF ev \in {"load", "forward"} THEN n ELSE IF ev = "print" THEN 1 ELSE 0
RECURSIVE Duration(_, _)
Duration(evs, n) == IF evs = <<>> THEN 0 ELSE Cost(Head(evs), n) + Duration(Tail(evs), n)
RECURSIVE Count(_, _)
Count(evs, ev) ==
    IF evs = <<>> THEN 0 ELSE (IF Head(evs) = ev THEN 1 ELSE 0) + Count(Tail(evs), ev)
RECURSIVE Sum(_)
Sum(xs) == IF xs = <<>> THEN 0 ELSE Head(xs) + Sum(Tail(xs))

\* The statements of one test case, in program order.
LoadEvents == <<"start_load", "load", "stop_load", "print", "print">>
WarmupEvents == <<"forward", "sync">>
\* of one timed run: before start_inference is taken, and from there to
\* the time.time() that ends it
TimedPrologue == <<"sync">>
TimedBody_WithPrint == <<"forward", "sync", "print">>
TimedBody == <<"forward", "sync">>
\* the prints, the results.append and the reset
RecordEvents ==
    <<"print", "read_mem", "print", "read_mem", "record", "reset_mem", "empty_cache">>

\* Lines 13-29: device and dtype, the header lines, the model.
BenchSetup ==
    /\ script = "bench" /\ pc = "main"
    /\ device' = IF cuda_available THEN "cuda" ELSE "cpu"
    /\ IF CudaCall(cuda_available) # "none"
       THEN \* torch.cuda.get_device_capability() raises; nothing handles it
            /\ pc' = "crashed"
            /\ UNCHANGED <<dtype, gpu_line, cc_line>>
       ELSE /\ dtype' = IF capability >= 8 THEN "bfloat16" ELSE "float16"
            /\ gpu_line' = IF cuda_available THEN "device name" ELSE "CPU"
            /\ cc_line' = IF cuda_available THEN "capability" ELSE "N/A"
            /\ pc' = "list_images"
    /\ UNCHANGED <<cuda_available, capability, image_dir_exists, image_files,
                   all_image_paths, case_idx, images, run, events, clock,
                   start_inference, inference_times, load_time, peak_mem, results,
                   loads, model_runs, slowdown_lines>>
    /\ UNCHANGED <<script, dvars, pvars>>

\* Lines 31-42: the image directory and its sorted listing.
BenchListImages ==
    /\ script = "bench" /\ pc = "list_images"
    /\ IF ~image_dir_exists
       THEN /\ pc' = "done"
            /\ UNCHANGED <<all_image_paths, results, case_idx>>
       ELSE /\ all_image_paths' = ListImages(image_files)
            /\ results' = <<>>
            /\ case_idx' = 1
            /\ pc' = "case"
    /\ UNCHANGED <<cuda_available, capability, image_dir_exists, image_files, device,
                   dtype, images, run, events, clock, start_inference, inference_times,
                   load_time, peak_mem, loads, model_runs, slowdown_lines, gpu_line,
                   cc_line>>
    /\ UNCHANGED <<script, dvars, pvars>>

\* A test case with more images than there are: continue.
BenchSkip ==
    /\ script = "bench" /\ pc = "case"
    /\ case_idx <= Len(test_cases)
    /\ SkipCase(test_cases[case_idx], all_image_paths)
    /\ case_idx' = case_idx + 1
    /\ UNCHANGED <<cuda_available, capability, image_dir_exists, image_files, device,
                   dtype, all_image_paths, images, run, events, clock, start_inference,
                   inference_times, load_time, peak_mem, results, loads, model_runs,
                   slowdown_lines, gpu_line, cc_line>>
    /\ UNCHANGED <<script, pc, dvars, pvars>>

\* Lines 48-59: select and load the images, timed on their own.
BenchLoad ==
    /\ script = "bench" /\ pc = "case"
    /\ case_idx <= Len(test_cases)
    /\ ~SkipCase(test_cases[case_idx], all_image_paths)
    /\ LET n == test_cases[case_idx]
       IN /\ images' = SubSeq(all_image_paths, 1, n)
          /\ loads' = Append(loads, SubSeq(all_image_paths, 1, n))
          /\ load_time' = Duration(<<"load">>, n)
          /\ clock' = clock + Duration(LoadEvents, n)
          /\ events' = LoadEvents
    /\ run' = 0
    /\ inference_times' = <<>>
    /\ pc' = "warmup"
    /\ UNCHANGED <<cuda_available, capability, image_dir_exists, image_files, device,
                   dtype, all_image_paths, case_idx, start_inference, peak_mem, results,
                   model_runs, slowdown_lines, gpu_line, cc_line>>
    /\ UNCHANGED <<script, dvars, pvars>>

\* Lines 61-65: the warm-up run.
BenchWarmup ==
    /\ script = "bench" /\ pc = "warmup"
    /\ LET n == test_cases[case_idx]
       IN /\ events' = events \o WarmupEvents
          /\ clock' = clock + Duration(WarmupEvents, n)
          /\ model_runs' = model_runs + Count(WarmupEvents, "forward")
          /\ peak_mem' = IF peak_mem < n THEN n ELSE peak_mem
    /\ pc' = "timed"
    /\ UNCHANGED <<cuda_available, capability, image_dir_exists, image_files, device,
                   dtype, all_image_paths, case_idx, images, run, start_inference,
                   inference_times, load_time, results, loads, slowdown_lines,
                   gpu_line, cc_line>>
    /\ UNCHANGED <<script, dvars, pvars>>

\* Lines 71-81: one timed run.
BenchTimedRun ==
    /\ script = "bench" /\ pc = "timed"
    /\ run < num_runs
    /\ LET n == test_cases[case_idx]
           t0 == clock + Duration(TimedPrologue, n)
           t1 == t0 + Duration(TimedBody, n)
       IN /\ events' = events \o TimedPrologue \o <<"start">> \o TimedBody \o <<"stop">>
          /\ start_inference' = t0
          /\ clock' = t1
          /\ inference_times' = Append(inference_times, t1 - t0)
          /\ model_runs' = model_runs + Count(TimedPrologue \o TimedBody, "forward")
          /\ peak_mem' = IF peak_mem < n THEN n ELSE peak_mem
    /\ run' = run + 1
    /\ UNCHANGED <<cuda_available, capability, image_dir_exists, image_files, device,
                   dtype, all_image_paths, case_idx, images, load_time, results, loads,
                   slowdown_lines, gpu_line, cc_line>>
    /\ UNCHANGED <<script, pc, dvars, pvars>>

\* Lines 83-98: print and record the measurements, reset the peak memory.
BenchRecord ==
    /\ script = "bench" /\ pc = "timed"
    /\ run = num_runs
    /\ LET n == test_cases[case_idx]
           \* the peak as the last read_mem before the record sees it
           resetAt == CHOOSE k \in 1 .. Len(RecordEvents) : RecordEvents[k] = "reset_mem"
           recordAt == CHOOSE k \in 1 .. Len(RecordEvents) : RecordEvents[k] = "record"
           seen == IF resetAt < recordAt THEN 0 ELSE peak_mem
       IN /\ events' = events \o RecordEvents
          /\ clock' = clock + Duration(RecordEvents, n)
          /\ results' = Append(results,
                               [num_images |-> n,
                                load_time |-> load_time,
                                inference_time |-> Sum(inference_times) \div num_runs,
                                memory_gb |-> seen])
    /\ peak_mem' = 0
    /\ case_idx' = case_idx + 1
    /\ pc' = "case"
    /\ UNCHANGED <<cuda_available, capability, image_dir_exists, image_files, device,
                   dtype, all_image_paths, images, run, start_inference,
                   inference_times, load_time, loads, model_runs, slowdown_lines,
                   gpu_line, cc_line>>
    /\ UNCHANGED <<script, dvars, pvars>>

\* for result in results: if paper_time: print the slowdown
SlowdownLines(rs) ==
    LET Shown(r) == Truthy(get_paper_time(r.num_images))
        shown == SelectSeq(rs, Shown)
    IN [k \in 1 .. Len(shown) |-> shown[k].num_images]

\* Lines 100-118: the summary tables and the analysis.
BenchSummary ==
    /\ script = "bench" /\ pc = "case"
    /\ case_idx > Len(test_cases)
    /\ slowdown_lines' = SlowdownLines(results)
    /\ pc' = "done"
    /\ UNCHANGED <<cuda_available, capability, image_dir_exists, image_files, device,
                   dtype, all_image_paths, case_idx, images, run, events, clock,
                   start_inference, inference_times, load_time, peak_mem, results,
                   loads, model_runs, gpu_line, cc_line>>
    /\ UNCHANGED <<script, dvars, pvars>>

(***************************************************************************)
(* get_paper_time applied to a frame count.                                *)
(***************************************************************************)
PaperCall ==
    /\ script = "paper" /\ pc = "main"
    /\ paper_time' = get_paper_time(num_images_arg)
    /\ pc' = "done"
    /\ UNCHANGED <<script, num_images_arg, dvars, bvars>>

(***************************************************************************)
(* Initial states and the specification.                                   *)
(***************************************************************************)
DebugIdle ==
    /\ phase = "none" /\ video_path = NoVideo /\ output_dir = "none"
    /\ created = {} /\ i = 0 /\ running = {} /\ started = <<>>
    /\ successful_methods = <<>> /\ worked = {} /\ matched = {}
    /\ last_outcome = "none" /\ report = "none" /\ verdict = "none"
    /\ working_worked = FALSE /\ probes = <<>>
    /\ analyze_result = FALSE /\ working_test_passed = FALSE
    /\ working_returned = FALSE /\ listed = <<>> /\ problem_video_path = NoVideo
    /\ searched = FALSE /\ cmds = <<>>
BenchIdle ==
    /\ device = "none" /\ dtype = "none" /\ all_image_paths = <<>> /\ case_idx = 0
    /\ images = <<>> /\ run = 0 /\ events = <<>> /\ clock = 0 /\ start_inference = 0
    /\ inference_times = <<>> /\ load_time = 0 /\ peak_mem = 0 /\ results = <<>>
    /\ loads = <<>> /\ model_runs = 0 /\ slowdown_lines = <<>>
    /\ gpu_line = "none" /\ cc_line = "none"
NoBench ==
    /\ cuda_available = FALSE /\ capability = 0 /\ image_dir_exists = FALSE
    /\ image_files = {}
NoPaper == num_images_arg = 0 /\ paper_time = None
NoScratch == [d \in ScratchDirs |-> Absent]

InitDebug ==
    /\ script = "debug"
    /\ working_exists \in BOOLEAN
    /\ \E w \in StaleDirs, p \in StaleDirs :
         dirs = [NoScratch EXCEPT !["debug_working_output"] = w,
                                  !["debug_problem_output"] = p]
    /\ DebugIdle /\ BenchIdle /\ NoBench /\ NoPaper
InitExtract ==
    /\ script = "extract"
    /\ working_exists \in BOOLEAN
    /\ \E t \in StaleDirs : dirs = [NoScratch EXCEPT !["test_ffmpeg_output"] = t]
    /\ DebugIdle /\ BenchIdle /\ NoBench /\ NoPaper
InitBench ==
    /\ script = "bench"
    /\ cuda_available \in BOOLEAN
    /\ capability \in Capabilities
    /\ image_dir_exists \in BOOLEAN
    /\ \E n \in 0 .. MaxImages :
         /\ ~image_dir_exists => n = 0
         /\ image_files = 1 .. n
    /\ working_exists = FALSE /\ dirs = NoScratch
    /\ DebugIdle /\ BenchIdle /\ NoPaper
InitPaper ==
    /\ script = "paper"
    /\ num_images_arg \in 1 .. MaxFrames
    /\ paper_time = None
    /\ working_exists = FALSE /\ dirs = NoScratch
    /\ DebugIdle /\ BenchIdle /\ NoBench

Init ==
    /\ pc = "main"
    /\ (InitDebug \/ InitExtract \/ InitBench \/ InitPaper)

Next ==
    \/ MainStart \/ AnalyzeExists \/ AnalyzeProbe \/ CheckFileStructure
    \/ MethodsSetup \/ MethodStart \/ MethodFinish \/ MethodsReturn
    \/ WorkingReturn \/ MainGate \/ MainSearch \/ MainSelect \/ MainCleanup
    \/ ExtractStart \/ ExtractRun \/ ExtractCleanup
    \/ BenchSetup \/ BenchListImages \/ BenchSkip \/ BenchLoad \/ BenchWarmup
    \/ BenchTimedRun \/ BenchRecord \/ BenchSummary
    \/ PaperCall

Spec == Init /\ [][Next]_vars


(***************************************************************************)
(* Properties.                                                             *)
(***************************************************************************)
FileScripts == {"debug", "extract"}
Failures == {"nonzero", "timeout", "notfound", "missing", "unreadable"}
FailureReports ==
    {"Video file not found", "Test video not found"}
    \cup {AnalyzeHandlers[k][2] : k \in DOMAIN AnalyzeHandlers}
    \cup {CheckHandlers[k][2] : k \in DOMAIN CheckHandlers}
    \cup {MethodHandlers[k][2] : k \in DOMAIN MethodHandlers}
    \cup {ExtractHandlers[k][2] : k \in DOMAIN ExtractHandlers}
\* the commands run on a video other than the known working one
ProblemCmds == {k \in DOMAIN cmds : cmds[k][2] # WorkingVideo}

\* C1: in debug_video_processing.py and test_ffmpeg_extraction.py every
\* failure of an external command (non-zero exit, timeout, executable not
\* found) or of a file access (file missing, file unreadable) is caught in
\* the function where it happens: that function prints a failure message
\* and returns; the script never ends with an exception.
C1_FailuresCaughtLocally ==
    script \in FileScripts =>
        /\ pc # "crashed"
        /\ report # "Traceback"
        /\ last_outcome \in Failures => report \in FailureReports

\* Reached: ffprobe is not installed, analyze_video_properties of the
\* uploaded video has said so and returned to main.
C1_Witness ==
    /\ script = "debug" /\ phase = "problem" /\ pc = "cleanup"
    /\ last_outcome = "notfound" /\ report = "ffprobe not found"

\* C2: in one call of test_ffmpeg_methods the six commands run one at a
\* time in the order method 1 .. method 6, each exactly once: at most one
\* command is running, the commands started so far are 1 .. k in order,
\* command i is started only when all the earlier ones have ended, and the
\* call returns only after all six have been started and have ended,
\* whatever their outcomes.
C2_OneAtATimeInOrder ==
    script = "debug" =>
        /\ Cardinality(running) <= 1
        /\ started = [k \in 1 .. Len(started) |-> k]
        /\ pc = "method_start" => running = {} /\ Len(started) = i - 1
        /\ pc = "method_wait" => running = {i} /\ Len(started) = i
        /\ pc \in {"methods_return", "working_cleanup"} =>
               running = {} /\ Len(started) = NumMethods

\* Reached: the call returns after six commands of which none succeeded,
\* the last one by timeout.
C2_Witness ==
    /\ script = "debug" /\ pc = "methods_return"
    /\ Len(started) = NumMethods /\ successful_methods = <<>>
    /\ last_outcome = "timeout"

\* C3: main tests the known working video first: no command is run on the
\* uploaded video before test_with_working_video has returned; when the
\* working video exists and none of the six methods worked on it, main
\* reports the critical failure and returns without listing the uploads or
\* running a command on an uploaded video; when the working video does not
\* exist the working test counts as passed; ffmpeg is run on the uploaded
\* video only after analyze_video_properties returned True for it, which
\* it does only when both ffprobe runs exited zero.
C3_WorkingVideoGates ==
    script = "debug" =>
        /\ ProblemCmds # {} => working_returned
        /\ searched => working_returned
        /\ (working_returned /\ working_exists /\ ~working_worked) =>
               /\ ~searched /\ ProblemCmds = {}
               /\ pc \in {"gate", "done"}
               /\ pc = "done" => verdict = "CRITICAL: Working video test failed"
        /\ (working_returned /\ ~working_exists) => working_test_passed
        /\ (\E k \in ProblemCmds : cmds[k][1] = "ffmpeg") =>
               analyze_result /\ probes = <<"zero", "zero">>

\* Reached: the working video passed its test and an extraction command is
\* running on the uploaded video.
C3_Witness ==
    /\ script = "debug" /\ phase = "problem" /\ pc = "method_wait"
    /\ working_exists /\ working_worked

\* C4: get_paper_time returns an interpolated time: the tabulated time for
\* a tabulated frame count, and for a frame count between two tabulated
\* counts a time between the two neighbouring tabulated times, never None.
C4_Interpolated ==
    (script = "paper" /\ pc = "done") =>
        LET n == num_images_arg
            lo == SetMax({m \in DOMAIN paper_data : m <= n})
            hi == SetMin({m \in DOMAIN paper_data : m >= n})
        IN (n >= lo /\ n <= SetMax(DOMAIN paper_data)) =>
               /\ paper_time # None
               /\ paper_data[lo] <= paper_time[1]
               /\ paper_time[1] <= paper_data[hi]

\* positions of the current test case's events
Pos(ev) == {k \in DOMAIN events : events[k] = ev}
\* position k lies inside a timed interval: after a start that no stop
\* has closed yet
Timed(k) ==
    \E s \in 1 .. (k - 1) :
        events[s] = "start" /\ \A t \in s .. (k - 1) : events[t] # "stop"
\* the start that the stop at e closes
StartOf(e) == SetMax({s \in Pos("start") : s < e})
CaseDone == script = "bench" /\ pc \in {"case", "done"} /\ events # <<>>

\* C5: the benchmark times pure inference. Inside a timed interval there
\* is nothing but one forward pass and the synchronisation after it (no
\* image load, no print, no memory read or reset, no other start); a
\* synchronisation comes right before each interval starts. A finished
\* test case consists of one image load, then one untimed forward pass,
\* then exactly num_runs timed intervals, then the record of the
\* measurements, then the reset of the peak memory, and every memory read
\* comes before that reset. The time recorded is that of one forward pass
\* and the memory recorded is the peak reached in this test case.
C5_PureInferenceTimed ==
    script = "bench" =>
        /\ \A k \in DOMAIN events : Timed(k) => events[k] \in {"forward", "sync", "stop"}
        /\ \A e \in Pos("stop") :
               /\ Pos("start") # {} /\ StartOf(e) > 1
               /\ events[StartOf(e) - 1] = "sync"
               /\ Cardinality({f \in Pos("forward") : StartOf(e) < f /\ f < e}) = 1
               /\ \A f \in Pos("forward") : (StartOf(e) < f /\ f < e) =>
                      \E y \in Pos("sync") : f < y /\ y < e
        /\ CaseDone =>
               /\ Cardinality(Pos("load")) = 1
               /\ Cardinality(Pos("start")) = num_runs
               /\ Cardinality(Pos("stop")) = num_runs
               /\ Cardinality(Pos("forward")) = num_runs + 1
               /\ Cardinality(Pos("record")) = 1
               /\ Cardinality(Pos("reset_mem")) = 1
               /\ \A l \in Pos("load"), f \in Pos("forward") : l < f
               /\ \A s \in Pos("start") : SetMin(Pos("forward")) < s
               /\ \A e \in Pos("stop"), r \in Pos("record") : e < r
               /\ \A r \in Pos("record") \cup Pos("read_mem"), z \in Pos("reset_mem") : r < z
               /\ \A k \in Pos("print") :
                      (\A f \in Pos("forward") : k < f) \/ (\A e \in Pos("stop") : e < k)
               /\ results # <<>>
               /\ results[Len(results)].inference_time
                      = Cost("forward", results[Len(results)].num_images)
               /\ results[Len(results)].memory_gb = results[Len(results)].num_images

\* Reached: the summary, after all seven test cases were executed.
C5_Witness ==
    /\ script = "bench" /\ pc = "done"
    /\ Len(results) = Len(test_cases) /\ events # <<>>

\* C6: the benchmark runs on a machine without CUDA: it selects device
\* "cpu", prints 'CPU' as the GPU and 'N/A' as the compute capability and
\* goes on to the model and the test cases without raising.
C6_RunsWithoutCuda ==
    (script = "bench" /\ ~cuda_available /\ pc # "main") =>
        /\ pc # "crashed"
        /\ device = "cpu" /\ gpu_line = "CPU" /\ cc_line = "N/A"

\* C7: test_ffmpeg_methods returns exactly the names of the methods that
\* worked: the name of method m is in the list if and only if command m
\* exited zero within the timeout and a file method{m}_*.png was there
\* afterwards, which is so exactly when command m itself wrote a frame in
\* this call; the names stand in the order of the methods, each once.
C7_ExactlyTheMethodsThatWorked ==
    script = "debug" =>
        /\ matched = worked
        /\ successful_methods =
               [k \in 1 .. Cardinality(worked) |-> Methods[SortAsc(worked)[k]]]

\* Reached: the call returns a non-empty list while the output directory
\* holds frames of a method that is not in it.
C7_Witness ==
    /\ script = "debug" /\ pc = "methods_return"
    /\ worked # {}
    /\ dirs[output_dir].files \ worked # {}

\* C8: at the summary the results hold exactly one entry for each test
\* case n with n <= N (N the number of images), in ascending order, and
\* none for an n > N; images were loaded and the model was run for these
\* test cases only; every entry was computed from the n first paths of the
\* sorted listing; and one slowdown line is printed for every entry.
C8_OneEntryPerFeasibleCase ==
    (script = "bench" /\ pc = "done") =>
        LET N == Cardinality(image_files)
            nums == [k \in DOMAIN results |-> results[k].num_images]
        IN /\ \A c \in DOMAIN test_cases :
                  Cardinality({k \in DOMAIN nums : nums[k] = test_cases[c]})
                      = (IF test_cases[c] <= N THEN 1 ELSE 0)
           /\ \A k \in DOMAIN nums : \E c \in DOMAIN test_cases : nums[k] = test_cases[c]
           /\ \A a, b \in DOMAIN nums : a < b => nums[a] < nums[b]
           /\ Len(loads) = Len(results)
           /\ model_runs = (1 + num_runs) * Len(results)
           /\ \A k \in DOMAIN loads :
                  /\ Len(loads[k]) = nums[k]
                  /\ \A j \in DOMAIN loads[k] :
                         /\ loads[k][j] \in image_files
                         /\ Cardinality({x \in image_files : x < loads[k][j]}) = j - 1
           /\ slowdown_lines = nums

\* Reached: the summary of a run with 10 to 19 images, in which the test
\* cases 20 and 50 were skipped.
C8_Witness ==
    /\ script = "bench" /\ pc = "done"
    /\ Cardinality(image_files) >= 10 /\ Cardinality(image_files) < 20
    /\ Len(results) = 5 /\ Len(slowdown_lines) = 5

\* the upload entries main looks into: the MaxUploads last in name order
RecentUploads ==
    LET ups == {n \in DOMAIN listed : listed[n].upload}
    IN {n \in ups : Cardinality({m \in ups : m > n}) < MaxUploads}

\* C9: main takes the uploaded video from the three most recent uploads
\* only: among the entries named input_images_*, the three last in name
\* order, it takes the last one that holds a video, and of that entry an
\* *.MP4 file before an *.mp4 file; when none of the three holds a video,
\* main reports that no recent uploads were found and returns without
\* running a command on an uploaded video.
C9_VideoFromRecentUploads ==
    script = "debug" =>
        /\ pc = "select" =>
               LET with == {n \in RecentUploads : listed[n].vids # {}}
               IN IF with = {} THEN problem_video_path = NoVideo
                  ELSE problem_video_path =
                           [dir |-> SetMax(with),
                            ext |-> IF "MP4" \in listed[SetMax(with)].vids
                                    THEN "MP4" ELSE "mp4"]
        /\ (searched /\ pc # "search" /\ problem_video_path = NoVideo) =>
               /\ ProblemCmds = {}
               /\ pc \in {"select", "done"}
               /\ pc = "done" => verdict = "No recent video uploads found"

\* Reached: only a fourth upload holds a video, and none is selected.
C9_Witness ==
    /\ script = "debug" /\ pc = "select"
    /\ problem_video_path = NoVideo
    /\ \E n \in DOMAIN listed :
           n \notin RecentUploads /\ listed[n].upload /\ listed[n].vids # {}

\* C10: when a script has ended, none of the scratch directories it
\* created exists any more.
C10_NoScratchDirLeft ==
    (script \in FileScripts /\ pc \in {"done", "crashed"}) =>
        \A d \in created : ~dirs[d].exists

\* Reached: main has returned early after the failed test of the working
\* video, for which it had created debug_working_output.
C10_Witness ==
    /\ script = "debug" /\ pc = "done"
    /\ "debug_working_output" \in created
    /\ verdict = "CRITICAL: Working video test failed"

====
